---- MODULE Spec2Model ----
(***************************************************************************)
(* Model of date_representations.ipynb: the date span recognition and      *)
(* normalisation code of the "Entry Level" part of the notebook.           *)
(*                                                                         *)
(* Text is a sequence of characters.  A character is a one-element string  *)
(* for ASCII and a transliterated token for a CJK character:               *)
(*   "min" "guo" (trad.) "guo_s" (simpl.) "zhong" "hua" (trad.) "hua_s"    *)
(*   (simpl.) "ping" "cheng" "tong" "nian" (year glyph) "yue" (month       *)
(*   glyph) "ri" (day glyph) "ben" "zhao" "he" "deng".                     *)
(* A Python value is a record [t, i, s]: t is the type tag ("None", "int", *)
(* "str", "NoGroup" for a group the pattern does not define, or the name   *)
(* of a raised exception), i the integer payload, s the string payload.    *)
(***************************************************************************)
EXTENDS Integers, Sequences, FiniteSets, TLC

(* ----------------------------- bounds ---------------------------------- *)
\* largest era-relative year handed to convert_calendar_system directly
MaxEraYear == 105
\* the years handed to convert_calendar_system start at -MaxNegYear
MaxNegYear == 2
\* largest number of date expressions joined into one page text
MaxDates == 2

(* --------------------------- characters -------------------------------- *)
Digit == {"0", "1", "2", "3", "4", "5", "6", "7", "8", "9"}

CJK == {"min", "guo", "guo_s", "zhong", "hua", "hua_s", "ping", "cheng",
        "tong", "nian", "yue", "ri", "ben", "zhao", "he", "deng"}

Letter == {"a", "b", "c", "d", "e", "f", "g", "h", "i", "j", "k", "l", "m",
           "n", "o", "p", "q", "r", "s", "t", "u", "v", "w", "x", "y", "z",
           "A", "B", "C", "D", "E", "F", "G", "H", "I", "J", "K", "L", "M",
           "N", "O", "P", "Q", "R", "S", "T", "U", "V", "W", "X", "Y", "Z"}

\* \w under re.UNICODE: digits, letters (CJK included) and the underscore
IsWord(c) == c \in Digit \/ c \in Letter \/ c \in CJK \/ c = "_"

DigitVal(c) ==
  CASE c = "0" -> 0 [] c = "1" -> 1 [] c = "2" -> 2 [] c = "3" -> 3
    [] c = "4" -> 4 [] c = "5" -> 5 [] c = "6" -> 6 [] c = "7" -> 7
    [] c = "8" -> 8 [] c = "9" -> 9

DigitChar(n) ==
  CASE n = 0 -> "0" [] n = 1 -> "1" [] n = 2 -> "2" [] n = 3 -> "3"
    [] n = 4 -> "4" [] n = 5 -> "5" [] n = 6 -> "6" [] n = 7 -> "7"
    [] n = 8 -> "8" [] n = 9 -> "9"

(* --------------------------- Python values ----------------------------- *)
None == [t |-> "None", i |-> 0, s |-> <<>>]
PyInt(n) == [t |-> "int", i |-> n, s |-> <<>>]
PyStr(x) == [t |-> "str", i |-> 0, s |-> x]
NoGroup == [t |-> "NoGroup", i |-> 0, s |-> <<>>]
Raise(e) == [t |-> e, i |-> 0, s |-> <<>>]

IsRaise(v) == v.t \in {"TypeError", "ValueError", "IndexError"}

\* truth value of a Python object in a condition
Truthy(v) ==
  CASE v.t = "None" -> FALSE
    [] v.t = "int" -> v.i # 0
    [] v.t = "str" -> Len(v.s) > 0
    [] OTHER -> FALSE

RECURSIVE NatToStr(_)
NatToStr(n) ==
  IF n < 10 THEN <<DigitChar(n)>>
  ELSE NatToStr(n \div 10) \o <<DigitChar(n % 10)>>

\* str(v)
str(v) ==
  CASE v.t = "None" -> <<"N", "o", "n", "e">>
    [] v.t = "int" -> IF v.i < 0 THEN <<"-">> \o NatToStr(0 - v.i)
                      ELSE NatToStr(v.i)
    [] OTHER -> v.s

RECURSIVE DigitsToNat(_)
DigitsToNat(x) ==
  IF Len(x) = 0 THEN 0
  ELSE 10 * DigitsToNat(SubSeq(x, 1, Len(x) - 1)) + DigitVal(x[Len(x)])

\* int(v): the integer itself, the value of a digit string, or an exception
int(v) ==
  CASE v.t = "int" -> v
    [] v.t = "str" ->
         IF Len(v.s) > 0 /\ \A k \in 1..Len(v.s) : v.s[k] \in Digit
         THEN PyInt(DigitsToNat(v.s))
         ELSE Raise("ValueError")
    [] OTHER -> Raise("TypeError")

\* x[:-1]
DropLast(x) == IF Len(x) = 0 THEN x ELSE SubSeq(x, 1, Len(x) - 1)

(* ------------------------- calendar lookups ---------------------------- *)
HEISEI == <<"ping", "cheng">>
MINGUO_T == <<"min", "guo">>
MINGUO_S == <<"min", "guo_s">>
ZHONGHUA_T == <<"zhong", "hua", "min", "guo">>
ZHONGHUA_S == <<"zhong", "hua_s", "min", "guo_s">>
TONGNIAN == <<"tong", "nian">>
SHOWA == <<"zhao", "he">>

HeiseiOffset == 1988
japanese_era_lookup == [e \in {HEISEI} |-> HeiseiOffset]
minguo_set == {MINGUO_T, MINGUO_S, ZHONGHUA_T, ZHONGHUA_S}
chinese_same_year_set == {TONGNIAN}

MinguoOffset == 1911

\* calendar_system in <set or dict>, for a str or None
InLookup(cal, keys) == cal.t = "str" /\ cal.s \in keys

\* convert_calendar_system with the Minguo and Heisei offsets taken from the
\* first Gregorian year of the era (1912, 1989) instead of the year before
convert_offset_from_first_year(year, calendar_system, today) ==
  IF year.t # "int" THEN Raise("TypeError")
  ELSE IF year.i < 1 THEN None
  ELSE IF InLookup(calendar_system, minguo_set)
       THEN PyInt(MinguoOffset + 1 + year.i)
  ELSE IF InLookup(calendar_system, DOMAIN japanese_era_lookup)
       THEN PyInt(japanese_era_lookup[calendar_system.s] + 1 + year.i)
  ELSE IF InLookup(calendar_system, chinese_same_year_set)
       THEN PyInt(today)
  ELSE None

\* convert_calendar_system with the guard "year < 0"
convert_lenient(year, calendar_system, today) ==
  IF year.t # "int" THEN Raise("TypeError")
  ELSE IF year.i < 0 THEN None
  ELSE IF InLookup(calendar_system, minguo_set)
       THEN PyInt(MinguoOffset + year.i)
  ELSE IF InLookup(calendar_system, DOMAIN japanese_era_lookup)
       THEN PyInt(japanese_era_lookup[calendar_system.s] + year.i)
  ELSE IF InLookup(calendar_system, chinese_same_year_set)
       THEN PyInt(today)
  ELSE None

\* convert_calendar_system with the same-year marker treated as an era
\* whose years count from the present year
convert_same_year_as_era(year, calendar_system, today) ==
  IF year.t # "int" THEN Raise("TypeError")
  ELSE IF year.i < 1 THEN None
  ELSE IF InLookup(calendar_system, minguo_set)
       THEN PyInt(MinguoOffset + year.i)
  ELSE IF InLookup(calendar_system, DOMAIN japanese_era_lookup)
       THEN PyInt(japanese_era_lookup[calendar_system.s] + year.i)
  ELSE IF InLookup(calendar_system, chinese_same_year_set)
       THEN PyInt(today + year.i - 1)
  ELSE None

\* convert_calendar_system(year, calendar_system); today is
\* datetime.date.today().year
convert_calendar_system(year, calendar_system, today) ==
  IF year.t # "int" THEN Raise("TypeError")
  ELSE IF year.i < 1 THEN None
  ELSE IF InLookup(calendar_system, minguo_set)
       THEN PyInt(MinguoOffset + year.i)
  ELSE IF InLookup(calendar_system, DOMAIN japanese_era_lookup)
       THEN PyInt(japanese_era_lookup[calendar_system.s] + year.i)
  ELSE IF InLookup(calendar_system, chinese_same_year_set)
       THEN PyInt(today)
  ELSE None

(* --------------------------- prep_iso8601 ------------------------------ *)
\* line 293: the month with a leading zero
PadMonth(month) ==
  IF month.t = "None" THEN None
  ELSE IF ~Truthy(month) THEN PyStr(str(month))
  ELSE IF IsRaise(int(month)) THEN int(month)
  ELSE IF int(month).i < 10 THEN PyStr(<<"0">> \o str(month))
  ELSE PyStr(str(month))

\* PadDay without the len(day) == 1 test, as the month is padded
PadDay_like_month(day) ==
  IF day.t = "None" THEN None
  ELSE IF ~Truthy(day) THEN PyStr(str(day))
  ELSE IF IsRaise(int(day)) THEN int(day)
  ELSE IF int(day).i < 10 THEN PyStr(<<"0">> \o str(day))
  ELSE PyStr(str(day))

\* line 295: the day with a leading zero; len() of an int raises
PadDay(day) ==
  IF day.t = "None" THEN None
  ELSE IF ~Truthy(day) THEN PyStr(str(day))
  ELSE IF day.t # "str" THEN Raise("TypeError")
  ELSE IF Len(day.s) # 1 THEN PyStr(str(day))
  ELSE IF IsRaise(int(day)) THEN int(day)
  ELSE IF int(day).i < 10 THEN PyStr(<<"0">> \o str(day))
  ELSE PyStr(str(day))

\* Assemble without the "elif month is None" placeholder
Assemble_no_placeholder(year, month, day) ==
  LET r0 == IF Truthy(year) THEN str(year) \o <<"-">> ELSE <<"-", "-">>
      r1 == IF Truthy(month) /\ Truthy(day) THEN r0 \o str(month) \o <<"-">>
            ELSE IF Truthy(month) THEN r0 \o str(month)
            ELSE r0
  IN  IF Truthy(day) THEN r1 \o str(day) ELSE r1

\* lines 297-305: the assembly from the padded month and day
Assemble(year, month, day) ==
  LET r0 == IF Truthy(year) THEN str(year) \o <<"-">> ELSE <<"-", "-">>
      r1 == IF Truthy(month) /\ Truthy(day) THEN r0 \o str(month) \o <<"-">>
            ELSE IF Truthy(month) THEN r0 \o str(month)
            ELSE IF month.t = "None" THEN r0 \o <<"-", "-">>
            ELSE r0
  IN  IF Truthy(day) THEN r1 \o str(day) ELSE r1

prep_iso8601(year, month, day) ==
  IF IsRaise(PadMonth(month)) THEN PadMonth(month)
  ELSE IF IsRaise(PadDay(day)) THEN PadDay(day)
  ELSE PyStr(Assemble(year, PadMonth(month), PadDay(day)))

(* ------------------------- regular expressions ------------------------- *)
NIAN == "nian"
YUE == "yue"
RI == "ri"
BENYUE == <<"ben", "yue">>

\* the character at offset pos (0-based), "" beyond either end
CharAt(text, pos) ==
  IF pos >= 0 /\ pos < Len(text) THEN text[pos + 1] ELSE ""

LitAt(text, pos, lit) ==
  /\ pos + Len(lit) <= Len(text)
  /\ SubSeq(text, pos + 1, pos + Len(lit)) = lit

\* n consecutive characters of class cls start at pos
ClassAt(text, pos, n, cls) ==
  \A k \in 0..(n - 1) : CharAt(text, pos + k) \in cls

\* \b
WordBoundary(text, pos) ==
  IsWord(CharAt(text, pos - 1)) # IsWord(CharAt(text, pos))

RECURSIVE WordRun(_, _)
\* number of consecutive \w characters from pos
WordRun(text, pos) ==
  IF IsWord(CharAt(text, pos)) THEN 1 + WordRun(text, pos + 1) ELSE 0

\* the lengths of the candidates that match, in the order the engine tries
Pick(cands) ==
  LET f == SelectSeq(cands, LAMBDA c : c.ok)
  IN  [k \in 1..Len(f) |-> f[k].n]

\* (?:\w*?)? : a lazy run of word characters, shortest first
LazyWordOpts(text, pos) == [k \in 1..(WordRun(text, pos) + 1) |-> k - 1]

D19 == Digit \ {"0"}

\* (?P<calendar>...)? of asian_dates
CalendarOpts(text, pos) ==
  Pick(<< [n |-> 2, ok |-> LitAt(text, pos, MINGUO_T)],
          [n |-> 2, ok |-> LitAt(text, pos, MINGUO_S)],
          [n |-> 4, ok |-> LitAt(text, pos, ZHONGHUA_T)],
          [n |-> 4, ok |-> LitAt(text, pos, ZHONGHUA_S)],
          [n |-> 2, ok |-> LitAt(text, pos, HEISEI)],
          [n |-> 2, ok |-> LitAt(text, pos, TONGNIAN)],
          [n |-> 0, ok |-> TRUE] >>)

\* (?P<year>\d{1,3}\w{1}|[0-9]{4}\w{1})? of asian_dates
AsianYearOpts(text, pos) ==
  Pick(<< [n |-> 4, ok |-> ClassAt(text, pos, 3, Digit)
                           /\ IsWord(CharAt(text, pos + 3))],
          [n |-> 3, ok |-> ClassAt(text, pos, 2, Digit)
                           /\ IsWord(CharAt(text, pos + 2))],
          [n |-> 2, ok |-> ClassAt(text, pos, 1, Digit)
                           /\ IsWord(CharAt(text, pos + 1))],
          [n |-> 5, ok |-> ClassAt(text, pos, 4, Digit)
                           /\ IsWord(CharAt(text, pos + 4))],
          [n |-> 0, ok |-> TRUE] >>)

\* (?P<month>0?[1-9]<yue>|1[0-2]<yue>) of asian_dates
AsianMonthOpts(text, pos) ==
  Pick(<< [n |-> 3, ok |-> CharAt(text, pos) = "0"
                           /\ CharAt(text, pos + 1) \in D19
                           /\ CharAt(text, pos + 2) = YUE],
          [n |-> 2, ok |-> CharAt(text, pos) \in D19
                           /\ CharAt(text, pos + 1) = YUE],
          [n |-> 3, ok |-> CharAt(text, pos) = "1"
                           /\ CharAt(text, pos + 1) \in {"0", "1", "2"}
                           /\ CharAt(text, pos + 2) = YUE] >>)

\* (?P<day>3[01]<ri>|[12][0-9]<ri>|0?[1-9]<ri>)? of asian_dates
AsianDayOpts(text, pos) ==
  Pick(<< [n |-> 3, ok |-> CharAt(text, pos) = "3"
                           /\ CharAt(text, pos + 1) \in {"0", "1"}
                           /\ CharAt(text, pos + 2) = RI],
          [n |-> 3, ok |-> CharAt(text, pos) \in {"1", "2"}
                           /\ CharAt(text, pos + 1) \in Digit
                           /\ CharAt(text, pos + 2) = RI],
          [n |-> 3, ok |-> CharAt(text, pos) = "0"
                           /\ CharAt(text, pos + 1) \in D19
                           /\ CharAt(text, pos + 2) = RI],
          [n |-> 2, ok |-> CharAt(text, pos) \in D19
                           /\ CharAt(text, pos + 1) = RI],
          [n |-> 0, ok |-> TRUE] >>)

\* (?P<year>\d{4}) of iso_dates
IsoYearOpts(text, pos) ==
  Pick(<< [n |-> 4, ok |-> ClassAt(text, pos, 4, Digit)] >>)

\* \-? of iso_dates
DashOpts(text, pos) ==
  Pick(<< [n |-> 1, ok |-> CharAt(text, pos) = "-"],
          [n |-> 0, ok |-> TRUE] >>)

\* (?P<month>0[1-9]|1[0-2]) of iso_dates
IsoMonthOpts(text, pos) ==
  Pick(<< [n |-> 2, ok |-> CharAt(text, pos) = "0"
                           /\ CharAt(text, pos + 1) \in D19],
          [n |-> 2, ok |-> CharAt(text, pos) = "1"
                           /\ CharAt(text, pos + 1) \in {"0", "1", "2"}] >>)

\* (?P<day>[12]\d|0[1-9]|3[01]) of iso_dates
IsoDayOpts(text, pos) ==
  Pick(<< [n |-> 2, ok |-> CharAt(text, pos) \in {"1", "2"}
                           /\ CharAt(text, pos + 1) \in Digit],
          [n |-> 2, ok |-> CharAt(text, pos) = "0"
                           /\ CharAt(text, pos + 1) \in D19],
          [n |-> 2, ok |-> CharAt(text, pos) = "3"
                           /\ CharAt(text, pos + 1) \in {"0", "1"}] >>)

\* \D{1}: one character that is not a digit
NonDigitAt(text, pos) == pos < Len(text) /\ CharAt(text, pos) \notin Digit

\* (?P<month><ben><yue>) of given_day
BenYueOpts(text, pos) ==
  Pick(<< [n |-> 2, ok |-> LitAt(text, pos, BENYUE)] >>)

\* (?P<day>[12]\d\D{1}|0?[1-9]\D{1}|3[01]\D{1}) of given_day
GivenDayOpts(text, pos) ==
  Pick(<< [n |-> 3, ok |-> CharAt(text, pos) \in {"1", "2"}
                           /\ CharAt(text, pos + 1) \in Digit
                           /\ NonDigitAt(text, pos + 2)],
          [n |-> 3, ok |-> CharAt(text, pos) = "0"
                           /\ CharAt(text, pos + 1) \in D19
                           /\ NonDigitAt(text, pos + 2)],
          [n |-> 2, ok |-> CharAt(text, pos) \in D19
                           /\ NonDigitAt(text, pos + 1)],
          [n |-> 3, ok |-> CharAt(text, pos) = "3"
                           /\ CharAt(text, pos + 1) \in {"0", "1"}
                           /\ NonDigitAt(text, pos + 2)] >>)

(* ------------------- Latin month-name expressions ---------------------- *)
Upper == <<"A", "B", "C", "D", "E", "F", "G", "H", "I", "J", "K", "L", "M",
           "N", "O", "P", "Q", "R", "S", "T", "U", "V", "W", "X", "Y", "Z">>
Lower == <<"a", "b", "c", "d", "e", "f", "g", "h", "i", "j", "k", "l", "m",
           "n", "o", "p", "q", "r", "s", "t", "u", "v", "w", "x", "y", "z">>

\* str.lower() of one character
ToLower(c) ==
  IF \E k \in 1..26 : Upper[k] = c
  THEN Lower[CHOOSE k \in 1..26 : Upper[k] = c]
  ELSE c

\* a literal under re.IGNORECASE
LitAtCI(text, pos, lit) ==
  /\ pos + Len(lit) <= Len(text)
  /\ \A k \in 1..Len(lit) : ToLower(text[pos + k]) = ToLower(lit[k])

\* [a-zA-z]: the range A-z also holds the six characters between Z and a;
\* "grave" is the grave accent
AZClass == Letter \cup {"[", "\\", "]", "^", "_", "grave"}

\* \s
Space == {" ", "\t", "\n", "\r", "\f"}

RECURSIVE ClassRun(_, _, _, _)
\* number of consecutive characters of class cls from pos, at most max
ClassRun(text, pos, cls, max) ==
  IF max > 0 /\ CharAt(text, pos) \in cls
  THEN 1 + ClassRun(text, pos + 1, cls, max - 1)
  ELSE 0

RECURSIVE NonDigitRun(_, _, _)
\* number of consecutive \D characters from pos, at most max
NonDigitRun(text, pos, max) ==
  IF max > 0 /\ NonDigitAt(text, pos)
  THEN 1 + NonDigitRun(text, pos + 1, max - 1)
  ELSE 0

\* a greedy repetition {min,max} that can take up to run characters:
\* longest first
Greedy(min, run) ==
  IF run < min THEN <<>> ELSE [k \in 1..(run - min + 1) |-> run - k + 1]

\* (?P<month>[a-zA-z]{3,9})
MonthWordOpts(text, pos) == Greedy(3, ClassRun(text, pos, AZClass, 9))

\* (?:\D{1,2})
Sep12Opts(text, pos) == Greedy(1, NonDigitRun(text, pos, 2))

\* (?:\D{0,5})
Sep05Opts(text, pos) == Greedy(0, NonDigitRun(text, pos, 5))

\* (?:\D{1,3})?
Sep13Opts(text, pos) == Greedy(1, NonDigitRun(text, pos, 3)) \o <<0>>

\* (?:\D{0,2})? : the empty match of \D{0,2} comes before the skipped group
Sep02Opts(text, pos) == Greedy(0, NonDigitRun(text, pos, 2)) \o <<0>>

\* [12]\d|0?[1-9]|3[01]
DayAlternatives(text, pos) ==
  << [n |-> 2, ok |-> CharAt(text, pos) \in {"1", "2"}
                      /\ CharAt(text, pos + 1) \in Digit],
     [n |-> 2, ok |-> CharAt(text, pos) = "0"
                      /\ CharAt(text, pos + 1) \in D19],
     [n |-> 1, ok |-> CharAt(text, pos) \in D19],
     [n |-> 2, ok |-> CharAt(text, pos) = "3"
                      /\ CharAt(text, pos + 1) \in {"0", "1"}] >>

\* (?P<day>[12]\d|0?[1-9]|3[01])? of text_month
TextDayOpts(text, pos) ==
  Pick(DayAlternatives(text, pos) \o << [n |-> 0, ok |-> TRUE] >>)

\* (?P<day>[12]\d|0?[1-9]|3[01]) of alt_text_month
AltDayOpts(text, pos) == Pick(DayAlternatives(text, pos))

\* (?P<year>\d{4})?
Year4Opts(text, pos) ==
  Pick(<< [n |-> 4, ok |-> ClassAt(text, pos, 4, Digit)],
          [n |-> 0, ok |-> TRUE] >>)

\* (?:\s)?
OptSpaceOpts(text, pos) ==
  Pick(<< [n |-> 1, ok |-> CharAt(text, pos) \in Space],
          [n |-> 0, ok |-> TRUE] >>)

\* (?:\s)
SpaceOpts(text, pos) ==
  Pick(<< [n |-> 1, ok |-> CharAt(text, pos) \in Space] >>)

\* (?:.)? : the dot takes any character but the newline
OptAnyOpts(text, pos) ==
  Pick(<< [n |-> 1, ok |-> CharAt(text, pos) \notin {"", "\n"}],
          [n |-> 0, ok |-> TRUE] >>)

\* (?P<day>\d{1,2})?
CleanupDayOpts(text, pos) ==
  Pick(<< [n |-> 2, ok |-> ClassAt(text, pos, 2, Digit)],
          [n |-> 1, ok |-> ClassAt(text, pos, 1, Digit)],
          [n |-> 0, ok |-> TRUE] >>)

\* (?:th|st)?
OrdinalOpts(text, pos) ==
  Pick(<< [n |-> 2, ok |-> LitAtCI(text, pos, <<"t", "h">>)],
          [n |-> 2, ok |-> LitAtCI(text, pos, <<"s", "t">>)],
          [n |-> 0, ok |-> TRUE] >>)

\* (?:,)?
OptCommaOpts(text, pos) ==
  Pick(<< [n |-> 1, ok |-> CharAt(text, pos) = ","],
          [n |-> 0, ok |-> TRUE] >>)

\* the month alternatives Jan(uary)?|Feb(ruary)?|...|Dec(ember)? in order
MonthNames ==
  << [abbr |-> <<"J", "a", "n">>, rest |-> <<"u", "a", "r", "y">>],
     [abbr |-> <<"F", "e", "b">>, rest |-> <<"r", "u", "a", "r", "y">>],
     [abbr |-> <<"M", "a", "r">>, rest |-> <<"c", "h">>],
     [abbr |-> <<"A", "p", "r">>, rest |-> <<"i", "l">>],
     [abbr |-> <<"M", "a", "y">>, rest |-> <<>>],
     [abbr |-> <<"J", "u", "n">>, rest |-> <<"e">>],
     [abbr |-> <<"J", "u", "l">>, rest |-> <<"y">>],
     [abbr |-> <<"A", "u", "g">>, rest |-> <<"u", "s", "t">>],
     [abbr |-> <<"S", "e", "p">>, rest |-> <<"t", "e", "m", "b", "e", "r">>],
     [abbr |-> <<"O", "c", "t">>, rest |-> <<"o", "b", "e", "r">>],
     [abbr |-> <<"N", "o", "v">>, rest |-> <<"e", "m", "b", "e", "r">>],
     [abbr |-> <<"D", "e", "c">>, rest |-> <<"e", "m", "b", "e", "r">>] >>

\* (?P<month>Jan(uary)?|...|Dec(ember)?) : for each alternative the name
\* with its optional tail, then without it
MonthNameOpts(text, pos) ==
  LET cand(k) ==
        LET m == MonthNames[(k + 1) \div 2]
        IN  IF k % 2 = 1
            THEN [n |-> Len(m.abbr) + Len(m.rest),
                  ok |-> m.rest # <<>> /\ LitAtCI(text, pos, m.abbr \o m.rest)]
            ELSE [n |-> Len(m.abbr), ok |-> LitAtCI(text, pos, m.abbr)]
  IN  Pick([k \in 1..24 |-> cand(k)])

\* the patterns as the sequence of their parts between \b and \b
asian_dates == "asian_dates"
iso_dates == "iso_dates"
given_day == "given_day"
text_month == "text_month"
text_month_cleanup == "text_month_cleanup"
alt_text_month == "alt_text_month"
alt_text_month_cleanup == "alt_text_month_cleanup"

NStages(pat) ==
  CASE pat = asian_dates -> 6 [] pat = iso_dates -> 5 [] pat = given_day -> 3
    [] pat = text_month -> 5 [] pat = text_month_cleanup -> 8
    [] pat = alt_text_month -> 7 [] pat = alt_text_month_cleanup -> 8

StageOpts(pat, k, text, pos) ==
  CASE pat = asian_dates ->
         (CASE k = 1 -> LazyWordOpts(text, pos)
            [] k = 2 -> CalendarOpts(text, pos)
            [] k = 3 -> AsianYearOpts(text, pos)
            [] k = 4 -> AsianMonthOpts(text, pos)
            [] k = 5 -> AsianDayOpts(text, pos)
            [] k = 6 -> LazyWordOpts(text, pos))
    [] pat = iso_dates ->
         (CASE k = 1 -> IsoYearOpts(text, pos)
            [] k = 2 -> DashOpts(text, pos)
            [] k = 3 -> IsoMonthOpts(text, pos)
            [] k = 4 -> DashOpts(text, pos)
            [] k = 5 -> IsoDayOpts(text, pos))
    [] pat = given_day ->
         (CASE k = 1 -> LazyWordOpts(text, pos)
            [] k = 2 -> BenYueOpts(text, pos)
            [] k = 3 -> GivenDayOpts(text, pos))
    [] pat = text_month ->
         (CASE k = 1 -> MonthWordOpts(text, pos)
            [] k = 2 -> Sep12Opts(text, pos)
            [] k = 3 -> TextDayOpts(text, pos)
            [] k = 4 -> Sep05Opts(text, pos)
            [] k = 5 -> Year4Opts(text, pos))
    [] pat = text_month_cleanup ->
         (CASE k = 1 -> MonthNameOpts(text, pos)
            [] k = 2 -> OptAnyOpts(text, pos)
            [] k = 3 -> SpaceOpts(text, pos)
            [] k = 4 -> CleanupDayOpts(text, pos)
            [] k = 5 -> OrdinalOpts(text, pos)
            [] k = 6 -> OptCommaOpts(text, pos)
            [] k = 7 -> OptSpaceOpts(text, pos)
            [] k = 8 -> Year4Opts(text, pos))
    [] pat = alt_text_month ->
         (CASE k = 1 -> AltDayOpts(text, pos)
            [] k = 2 -> Sep13Opts(text, pos)
            [] k = 3 -> OptSpaceOpts(text, pos)
            [] k = 4 -> MonthWordOpts(text, pos)
            [] k = 5 -> Sep02Opts(text, pos)
            [] k = 6 -> Sep05Opts(text, pos)
            [] k = 7 -> Year4Opts(text, pos))
    [] pat = alt_text_month_cleanup ->
         (CASE k = 1 -> CleanupDayOpts(text, pos)
            [] k = 2 -> OrdinalOpts(text, pos)
            [] k = 3 -> OptCommaOpts(text, pos)
            [] k = 4 -> SpaceOpts(text, pos)
            [] k = 5 -> MonthNameOpts(text, pos)
            [] k = 6 -> OptAnyOpts(text, pos)
            [] k = 7 -> OptSpaceOpts(text, pos)
            [] k = 8 -> Year4Opts(text, pos))

\* the part of the pattern that captures each named group, 0 when the
\* pattern has no such group
GroupStage(pat, name) ==
  CASE pat = asian_dates ->
         (CASE name = "calendar" -> 2 [] name = "year" -> 3
            [] name = "month" -> 4 [] name = "day" -> 5)
    [] pat = iso_dates ->
         (CASE name = "calendar" -> 0 [] name = "year" -> 1
            [] name = "month" -> 3 [] name = "day" -> 5)
    [] pat = given_day ->
         (CASE name = "calendar" -> 0 [] name = "year" -> 0
            [] name = "month" -> 2 [] name = "day" -> 3)
    [] pat = text_month ->
         (CASE name = "calendar" -> 0 [] name = "year" -> 5
            [] name = "month" -> 1 [] name = "day" -> 3)
    [] pat = text_month_cleanup ->
         (CASE name = "calendar" -> 0 [] name = "year" -> 8
            [] name = "month" -> 1 [] name = "day" -> 4)
    [] pat = alt_text_month ->
         (CASE name = "calendar" -> 0 [] name = "year" -> 7
            [] name = "month" -> 4 [] name = "day" -> 1)
    [] pat = alt_text_month_cleanup ->
         (CASE name = "calendar" -> 0 [] name = "year" -> 8
            [] name = "month" -> 5 [] name = "day" -> 1)

NoMatch == [ok |-> FALSE, end |-> 0, caps |-> <<>>]

RECURSIVE MatchStage(_, _, _, _, _)
RECURSIVE FirstOpt(_, _, _, _, _, _, _)
\* backtracking match of parts k.. of the pattern at pos; caps holds the
\* length consumed by each earlier part
MatchStage(pat, k, text, pos, caps) ==
  IF k > NStages(pat)
  THEN IF WordBoundary(text, pos)
       THEN [ok |-> TRUE, end |-> pos, caps |-> caps]
       ELSE NoMatch
  ELSE FirstOpt(pat, k, text, pos, caps, StageOpts(pat, k, text, pos), 1)

FirstOpt(pat, k, text, pos, caps, opts, j) ==
  IF j > Len(opts) THEN NoMatch
  ELSE LET r == MatchStage(pat, k + 1, text, pos + opts[j],
                           Append(caps, opts[j]))
       IN  IF r.ok THEN r
           ELSE FirstOpt(pat, k, text, pos, caps, opts, j + 1)

RECURSIVE SumTo(_, _)
SumTo(caps, k) == IF k = 0 THEN 0 ELSE caps[k] + SumTo(caps, k - 1)

\* match_object.group(name)
GroupOf(pat, text, start, caps, name) ==
  LET k == GroupStage(pat, name)
  IN  IF k = 0 THEN NoGroup
      ELSE IF caps[k] = 0 THEN None
      ELSE LET from == start + SumTo(caps, k - 1)
           IN  PyStr(SubSeq(text, from + 1, from + caps[k]))

\* the match object of a successful match r that starts at start
MatchObject(pat, text, start, r) ==
  [start |-> start, end |-> r.end,
   group |-> SubSeq(text, start + 1, r.end),
   calendar |-> GroupOf(pat, text, start, r.caps, "calendar"),
   year |-> GroupOf(pat, text, start, r.caps, "year"),
   month |-> GroupOf(pat, text, start, r.caps, "month"),
   day |-> GroupOf(pat, text, start, r.caps, "day")]

\* every pattern starts with \b
MatchAt(pat, text, start) ==
  IF WordBoundary(text, start) THEN MatchStage(pat, 1, text, start, <<>>)
  ELSE NoMatch

RECURSIVE Scan(_, _, _, _)
Scan(pat, text, pos, acc) ==
  IF pos > Len(text) THEN acc
  ELSE LET r == MatchAt(pat, text, pos)
       IN  IF r.ok
           THEN Scan(pat, text, IF r.end > pos THEN r.end ELSE pos + 1,
                     Append(acc, MatchObject(pat, text, pos, r)))
           ELSE Scan(pat, text, pos + 1, acc)

\* list(cmp_<pat>.finditer(text))
finditer(pat, text) == Scan(pat, text, 0, <<>>)

(* ------------------------ field extraction ----------------------------- *)
\* year[:-1] under "if year:"
StripSuffix(v) == IF Truthy(v) THEN PyStr(DropLast(v.s)) ELSE v

\* get_date_attrs(match_object): exc is the exception that escapes, if any
get_date_attrs(m, today) ==
  LET calendar == m.calendar
      year0 == StripSuffix(m.year)
      month == StripSuffix(m.month)
      day == StripSuffix(m.day)
      year1 == IF InLookup(calendar, DOMAIN japanese_era_lookup)
               THEN convert_calendar_system(year0, calendar, today)
               ELSE year0
      year2 == IF IsRaise(year1) THEN year1
               ELSE IF InLookup(calendar, minguo_set)
               THEN convert_calendar_system(year1, calendar, today)
               ELSE year1
  IN  IF \E g \in {m.calendar, m.year, m.month, m.day} : g.t = "NoGroup"
      THEN [exc |-> Raise("IndexError"), year |-> None, month |-> None,
            day |-> None]
      ELSE IF IsRaise(year2)
      THEN [exc |-> year2, year |-> None, month |-> None, day |-> None]
      ELSE [exc |-> None, year |-> year2, month |-> month, day |-> day]

\* one try/except block of prep_origin_date
OriginPart(g) == IF g.t = "str" /\ Truthy(g) THEN g.s ELSE <<>>

\* prep_origin_date(match_object)
prep_origin_date(m) ==
  OriginPart(m.calendar) \o OriginPart(m.year) \o OriginPart(m.month)
    \o OriginPart(m.day)

\* list.insert(k, x) for 0 <= k <= len
Insert(x, k, c) == SubSeq(x, 1, k) \o <<c>> \o SubSeq(x, k + 1, Len(x))

\* the body of the loop of format_iso_dates for one item
format_iso_item(item) ==
  IF item.group[5] # "-" /\ item.group[7] # "-"
  THEN Insert(Insert(item.group, 4, "-"), 7, "-")
  ELSE item.group

(* --------------------------- format_text_month ------------------------- *)
\* a match object, as opposed to None
IsMatch(v) == "group" \in DOMAIN v

RECURSIVE SearchFrom(_, _, _)
SearchFrom(pat, text, pos) ==
  IF pos > Len(text) THEN None
  ELSE LET r == MatchAt(pat, text, pos)
       IN  IF r.ok THEN MatchObject(pat, text, pos, r)
           ELSE SearchFrom(pat, text, pos + 1)

\* cmp_<pat>.search(text): the leftmost match or None
search(pat, text) == SearchFrom(pat, text, 0)

\* a whole string under re.IGNORECASE, as strptime compares month names
EqualCI(x, y) ==
  /\ Len(x) = Len(y)
  /\ \A k \in 1..Len(x) : ToLower(x[k]) = ToLower(y[k])

\* strptime with the month counted from 0, as tm_mon of C is
strptime_month_zero_based(s, full) ==
  LET name(k) == IF full THEN MonthNames[k].abbr \o MonthNames[k].rest
                 ELSE MonthNames[k].abbr
      hits == {k \in 1..12 : EqualCI(s, name(k))}
  IN  IF hits = {} THEN Raise("ValueError")
      ELSE PyInt((CHOOSE k \in hits : TRUE) - 1)

\* datetime.datetime.strptime(s, "%B").month, or with "%b" when not full
strptime_month(s, full) ==
  LET name(k) == IF full THEN MonthNames[k].abbr \o MonthNames[k].rest
                 ELSE MonthNames[k].abbr
      hits == {k \in 1..12 : EqualCI(s, name(k))}
  IN  IF hits = {} THEN Raise("ValueError")
      ELSE PyInt(CHOOSE k \in hits : TRUE)

\* the cleanup pattern format_text_month applies to a candidate
CleanupPattern(alt) ==
  IF alt THEN alt_text_month_cleanup ELSE text_month_cleanup

\* the loop body of format_text_month with the origin appended for every
\* candidate
format_text_month_parsed_unguarded(result, origin_date_list, item, parsed) ==
  IF ~IsMatch(parsed)
  THEN [exc |-> None, result |-> result,
        origin_date_list |-> Append(origin_date_list, item)]
  ELSE IF IsRaise(strptime_month(parsed.month.s, Len(parsed.month.s) > 3))
  THEN [exc |-> strptime_month(parsed.month.s, Len(parsed.month.s) > 3),
        result |-> result, origin_date_list |-> origin_date_list]
  ELSE [exc |-> None,
        result |->
          Append(result,
                 prep_iso8601(
                   IF Truthy(parsed.year) THEN parsed.year ELSE None,
                   strptime_month(parsed.month.s, Len(parsed.month.s) > 3),
                   IF Truthy(parsed.day) THEN parsed.day ELSE None).s),
        origin_date_list |-> Append(origin_date_list, item)]

\* the loop body of format_text_month once the cleanup pattern was applied
\* (parsed): the two lists after it, and the exception that escapes, if any.
\* The month is an int and the day a string, so prep_iso8601 cannot raise.
format_text_month_parsed(result, origin_date_list, item, parsed) ==
  IF ~IsMatch(parsed)
  THEN [exc |-> None, result |-> result,
        origin_date_list |-> origin_date_list]
  ELSE IF IsRaise(strptime_month(parsed.month.s, Len(parsed.month.s) > 3))
  THEN [exc |-> strptime_month(parsed.month.s, Len(parsed.month.s) > 3),
        result |-> result, origin_date_list |-> origin_date_list]
  ELSE [exc |-> None,
        result |->
          Append(result,
                 prep_iso8601(
                   IF Truthy(parsed.year) THEN parsed.year ELSE None,
                   strptime_month(parsed.month.s, Len(parsed.month.s) > 3),
                   IF Truthy(parsed.day) THEN parsed.day ELSE None).s),
        origin_date_list |-> Append(origin_date_list, item)]

\* one iteration of the loop of format_text_month
format_text_month_step(result, origin_date_list, item, alt) ==
  format_text_month_parsed(result, origin_date_list, item,
                           search(CleanupPattern(alt), item.group))

(* ----------------------------- page texts ------------------------------ *)
TodayYears == {2017, 2026}

EraParts == {<<>>, MINGUO_T, MINGUO_S, ZHONGHUA_T, ZHONGHUA_S, HEISEI,
             TONGNIAN}
YearParts == {<<>>, <<"5", NIAN>>, <<"2", "8", NIAN>>,
              <<"1", "0", "5", NIAN>>, <<"2", "0", "1", "6", NIAN>>}
MonthParts == {<<"1", YUE>>, <<"0", "1", YUE>>, <<"1", "0", YUE>>,
               <<"1", "3", YUE>>}
DayParts == {<<>>, <<"1", RI>>, <<"0", "5", RI>>, <<"1", "0", RI>>,
             <<"3", "2", RI>>}

AsianExprs ==
  {e \o y \o m \o d : e \in EraParts, y \in YearParts, m \in MonthParts,
                      d \in DayParts}

IsoFields == {<< <<"2", "0", "1", "6">>, <<"1", "0">>, <<"1", "0">> >>,
              << <<"2", "0", "1", "3">>, <<"0", "1">>, <<"0", "1">> >>,
              << <<"1", "9", "9", "9">>, <<"1", "2">>, <<"3", "1">> >>,
              << <<"2", "0", "1", "6">>, <<"1", "3">>, <<"1", "0">> >>}
Seps == {<<>>, <<"-">>}

IsoExprs ==
  {f[1] \o a \o f[2] \o b \o f[3] : f \in IsoFields, a \in Seps, b \in Seps}

GivenDayParts == {<<"1", RI>>, <<"0", "1", RI>>, <<"3", RI>>, <<"1", "0", RI>>,
                  <<"2", "9", RI>>, <<"3", "1", RI>>, <<"3", "2", RI>>}

GivenExprs == {p \o BENYUE \o d : p \in {<<>>, <<"deng">>}, d \in GivenDayParts}

\* the examples a, b, d, e, f, g and h of the notebook's first cell
ExampleA == MINGUO_T \o <<"1", "0", "5", NIAN, "1", "0", YUE, "1", "0", RI>>
ExampleB == <<"2", "0", "1", "6", "-", "1", "0", "-", "1", "0">>
ExampleD == <<"2", "0", "1", "6", NIAN, "1", "0", YUE>>
ExampleE == <<"1", "0", YUE, "1", "0", RI>>
ExampleF == TONGNIAN \o <<"1", "0", YUE>>
ExampleG == BENYUE \o <<"1", "0", RI>>
ExampleH == HEISEI \o <<"2", "8", NIAN, "1", "0", YUE, "1", "0", RI,
                        "deng", "deng">>

MultiExprs == {ExampleB, ExampleD, ExampleE, ExampleF, ExampleG,
               <<"2", "0", "1", "3", "0", "1", "0", "1">>}

RECURSIVE Join(_)
\* ", ".join(q)
Join(q) ==
  IF Len(q) = 0 THEN <<>>
  ELSE IF Len(q) = 1 THEN q[1]
  ELSE q[1] \o <<",", " ">> \o Join(Tail(q))

MultiTexts ==
  {Join(q) : q \in UNION {[1..n -> MultiExprs] : n \in 2..MaxDates}}

\* test_text_month of the static test of the text month pattern
StaticTestTextMonth ==
  <<"O", "c", "t", ".", " ", "1", "s", "t", ",", " ", "2", "0", "1", "6",
    ",", " ", "O", "c", "t", "o", "b", "e", "r", " ", "1", "5", "t", "h",
    ",", " ", "J", "a", "n", " ", "0", "7", " ", "2", "0", "1", "7", ",",
    " ", "F", "E", "B", " ", "1", "9", "9", "5", ",", " ", "J", "5", "9",
    " ", "2", "0", "3", "8", ",", " ", "M", "a", "r", "c", "h", " ", "1",
    "0", "t", "h">>
\* test_alt_text_month of the static test of the alternate pattern
StaticTestAltTextMonth ==
  <<"1", "s", "t", " ", "O", "c", "t", "o", "b", "e", "r">>
\* a word that is a month abbreviation and one more letter
TextMars ==
  <<"M", "a", "r", "s", " ", "5", ",", " ", "2", "0", "1", "6">>
TextSept ==
  <<"S", "e", "p", "t", " ", "5", ",", " ", "2", "0", "1", "6">>
\* a longer word that begins with a month abbreviation
TextOctopus ==
  <<"O", "c", "t", "o", "p", "u", "s", " ", "5", ",", " ", "2", "0", "1",
    "6">>
\* the J59 token of the static test
TextJ59 ==
  <<"J", "5", "9", " ", "2", "0", "3", "8">>
\* ordinal suffixes other than st and th
TextSecond ==
  <<"O", "c", "t", " ", "2", "n", "d", ",", " ", "2", "0", "1", "6">>
TextThird ==
  <<"O", "c", "t", " ", "3", "r", "d", " ", "2", "0", "1", "6">>
TextAltSecond ==
  <<"2", "n", "d", " ", "O", "c", "t", "o", "b", "e", "r", " ", "2", "0",
    "1", "6">>
TextAltThird ==
  <<"3", "r", "d", " ", "M", "a", "y">>
\* a period and a comma between the month and the year
TextAltPeriodComma ==
  <<"1", " ", "J", "a", "n", ".", ",", " ", "2", "0", "1", "6">>
\* a word in front of the month name
TextLeadingWord ==
  <<"s", "e", "e", " ", "J", "a", "n", " ", "0", "7", " ", "2", "0", "1",
    "7">>
\* day and month numbers out of range in Latin text
TextDay32 ==
  <<"O", "c", "t", "o", "b", "e", "r", " ", "3", "2", ",", " ", "2", "0",
    "1", "6">>
TextAltDay32 ==
  <<"3", "2", " ", "O", "c", "t", "o", "b", "e", "r">>
\* two dates with a word that is not a month name between them
TextMixed ==
  <<"O", "c", "t", ".", " ", "1", "s", "t", ",", " ", "2", "0", "1", "6",
    ",", " ", "O", "c", "t", "o", "p", "u", "s", " ", "5", ",", " ", "2",
    "0", "1", "6", ",", " ", "F", "E", "B", " ", "1", "9", "9", "5">>

\* texts whose year digits run on into the month number without a glyph
RunOnExprs == {<<"1", "1", "1", YUE>>, <<"2", "0", "1", "6", "1", YUE>>,
               <<"1", "0", "5", "1", "0", YUE, "1", "0", RI>>}

(* Latin month-name expressions: a case is the text with the month number,
   the day digits and the year digits written in it (<<>> when absent) *)
ToUpper(c) ==
  IF \E k \in 1..26 : Lower[k] = c
  THEN Upper[CHOOSE k \in 1..26 : Lower[k] = c]
  ELSE c

UpperSeq(x) == [k \in 1..Len(x) |-> ToUpper(x[k])]
LowerSeq(x) == [k \in 1..Len(x) |-> ToLower(x[k])]

\* the abbreviation and the full name of month k
PlainSpellings(k) ==
  {[k |-> k, s |-> n] : n \in {MonthNames[k].abbr,
                              MonthNames[k].abbr \o MonthNames[k].rest}}

\* the same in the three letter cases
CaseSpellings(k) ==
  UNION {{p, [p EXCEPT !.s = UpperSeq(p.s)], [p EXCEPT !.s = LowerSeq(p.s)]} :
           p \in PlainSpellings(k)}

AllSpellings == UNION {CaseSpellings(k) : k \in 1..12}

LatinDays == {1, 7, 10, 22, 31}
Periods == {<<>>, <<".">>}
Commas == {<<>>, <<",">>}
Ordinals == {<<>>, <<"s", "t">>, <<"t", "h">>}

\* the digits of day d, also with a leading zero below 10
DayDigits(d) ==
  {NatToStr(d)} \cup (IF d < 10 THEN {<<"0">> \o NatToStr(d)} ELSE {})

\* a day with its ordinal suffix and comma
DayWritings(days, sufs, coms) ==
  {[s |-> n \o suf \o com, d |-> n] :
     n \in UNION {DayDigits(d) : d \in days}, suf \in sufs, com \in coms}

Absent == [s |-> <<>>, d |-> <<>>]

YearWritings(years) == {[s |-> NatToStr(y), d |-> NatToStr(y)] : y \in years}

\* a separating blank in front of a part that is written
Blank(w) == IF w.s = <<>> THEN <<>> ELSE <<" ">> \o w.s

\* month, then day, then year
MonthFirstCases(names, days, years) ==
  {[text |-> n.s \o p \o Blank(d) \o Blank(y), alt |-> FALSE,
    month |-> n.k, day |-> d.d, year |-> y.d] :
     n \in names, p \in Periods, d \in days \cup {Absent},
     y \in years \cup {Absent}}

\* day, then month, then year
DayFirstCases(names, days, years) ==
  {[text |-> d.s \o <<" ">> \o n.s \o p \o Blank(y), alt |-> TRUE,
    month |-> n.k, day |-> d.d, year |-> y.d] :
     n \in names, p \in Periods, d \in days, y \in years \cup {Absent}}

LatinCases ==
  MonthFirstCases(AllSpellings,
                  DayWritings({15}, {<<"t", "h">>}, {<<",">>}),
                  YearWritings({2016}))
    \cup MonthFirstCases({p \in PlainSpellings(10) \cup PlainSpellings(3) :
                            Len(p.s) \in {3, 5} /\ p.s # MonthNames[3].abbr},
                         DayWritings(LatinDays, Ordinals, Commas),
                         YearWritings({2016}))
    \cup DayFirstCases(AllSpellings, DayWritings({1}, {<<"s", "t">>}, {<<>>}),
                       {})
    \cup DayFirstCases({p \in PlainSpellings(10) \cup PlainSpellings(5) :
                          Len(p.s) \in {3, 7}},
                       DayWritings(LatinDays, Ordinals, {<<>>}),
                       YearWritings({1995}))

LatinOther ==
  {StaticTestTextMonth, StaticTestAltTextMonth, TextMars, TextSept,
   TextOctopus, TextJ59, TextSecond, TextThird, TextAltSecond, TextAltThird,
   TextAltPeriodComma, TextLeadingWord, TextDay32, TextAltDay32,
   TextMixed}

LatinTexts == {c.text : c \in LatinCases} \cup LatinOther

PageTexts ==
  AsianExprs \cup IsoExprs \cup GivenExprs \cup MultiTexts
    \cup {ExampleA, ExampleH} \cup RunOnExprs \cup LatinTexts

(* ------------------------------- state --------------------------------- *)
VARIABLES today, page_text, asian_date_list, iso_date_list, given_day_list,
          fn, pc, i, args, ret, result, origin_date_list,
          text_month_list, alt_text_month_list, registry, callers

vars == <<today, page_text, asian_date_list, iso_date_list, given_day_list,
          fn, pc, i, args, ret, result, origin_date_list,
          text_month_list, alt_text_month_list, registry, callers>>

lists == <<asian_date_list, iso_date_list, given_day_list, text_month_list,
           alt_text_month_list>>
env == <<today, page_text, registry, callers>>

\* the names the pattern cell binds to the compiled patterns, in its order
CompiledPatterns ==
  << <<"cmp_asian_dates", asian_dates>>, <<"cmp_iso_dates", iso_dates>>,
     <<"cmp_text_month", text_month>>, <<"cmp_given_day", given_day>>,
     <<"cmp_text_month_cleanup", text_month_cleanup>>,
     <<"cmp_alt_text_month", alt_text_month>>,
     <<"cmp_alt_text_month_cleanup", alt_text_month_cleanup>> >>

CompiledNames ==
  {CompiledPatterns[k][1] : k \in 1..Len(CompiledPatterns)}

\* no name is bound
NoBindings == [n \in {} |-> ""]

\* an assignment that refuses a name that is already bound
Bind_unique(reg, name, pat) ==
  IF name \in DOMAIN reg
  THEN [exc |-> Raise("DuplicateGrammarError"), reg |-> reg]
  ELSE [exc |-> None,
        reg |-> [n \in DOMAIN reg \cup {name} |->
                   IF n = name THEN pat ELSE reg[n]]]

\* the assignment name = re.compile(pat, ...) at module level: the name is
\* bound, or bound again, and nothing is raised
Bind(reg, name, pat) ==
  [exc |-> None,
   reg |-> [n \in DOMAIN reg \cup {name} |->
              IF n = name THEN pat ELSE reg[n]]]

RECURSIVE BindAll(_, _, _)
\* the assignments k.. of the pattern cell, stopping at the first that raises
BindAll(reg, defs, k) ==
  IF k > Len(defs) THEN [exc |-> None, reg |-> reg]
  ELSE LET b == Bind(reg, defs[k][1], defs[k][2])
       IN  IF b.exc # None THEN b ELSE BindAll(b.reg, defs, k + 1)

\* the namespace once the pattern cell has run
Compiled == BindAll(NoBindings, CompiledPatterns, 1).reg

Init ==
  /\ today \in TodayYears
  /\ page_text \in PageTexts
  /\ asian_date_list = <<>>
  /\ iso_date_list = <<>>
  /\ given_day_list = <<>>
  /\ fn = "finditer"
  /\ pc = "start"
  /\ i = 0
  /\ args = <<>>
  /\ ret = None
  /\ result = <<>>
  /\ origin_date_list = <<>>
  /\ text_month_list = <<>>
  /\ alt_text_month_list = <<>>
  /\ registry = NoBindings
  /\ callers = <<>>

\* the cell that defines and compiles the patterns; it can be run again
\* before the patterns are used.  args holds the names bound before the run
DefinePatterns ==
  /\ pc = "start"
  /\ LET b == BindAll(registry, CompiledPatterns, 1)
     IN  /\ registry' = b.reg
         /\ ret' = b.exc
  /\ fn' = "define_patterns"
  /\ args' = <<DOMAIN registry>>
  /\ UNCHANGED <<today, page_text, callers, lists, pc, i, result,
                 origin_date_list>>

\* the cell that runs the compiled patterns over page_text
FindAll ==
  /\ pc = "start"
  /\ DOMAIN registry = CompiledNames
  /\ asian_date_list' = finditer(registry["cmp_asian_dates"], page_text)
  /\ iso_date_list' = finditer(registry["cmp_iso_dates"], page_text)
  /\ text_month_list' = finditer(registry["cmp_text_month"], page_text)
  /\ given_day_list' = finditer(registry["cmp_given_day"], page_text)
  /\ alt_text_month_list' =
       finditer(registry["cmp_alt_text_month"], page_text)
  /\ pc' = "idle"
  /\ fn' = ""
  /\ args' = <<>>
  /\ ret' = None
  /\ UNCHANGED <<env, i, result, origin_date_list>>

\* the locals of a format function at its first loop test
Enter(f) ==
  /\ fn' = f
  /\ pc' = "loop"
  /\ i' = 1
  /\ result' = <<>>
  /\ origin_date_list' = <<>>
  /\ ret' = None
  /\ args' = <<>>
  /\ UNCHANGED <<env, lists>>

\* a result cell calls format_asian_dates(asian_date_list); a cell runs once
\* the cell before it has returned or stopped with a traceback
CallFormatAsianDates ==
  /\ pc \in {"idle", "done", "raised"}
  /\ Enter("format_asian_dates")

\* a result cell calls format_iso_dates(iso_date_list)
CallFormatIsoDates ==
  /\ pc \in {"idle", "done", "raised"}
  /\ Enter("format_iso_dates")

\* a result cell calls format_given_day(given_day_list)
CallFormatGivenDay ==
  /\ pc \in {"idle", "done", "raised"}
  /\ Enter("format_given_day")

\* a result cell calls format_text_month(text_month_list)
CallFormatTextMonth ==
  /\ pc \in {"idle", "done", "raised"}
  /\ fn' = "format_text_month"
  /\ args' = <<FALSE>>
  /\ pc' = "loop"
  /\ i' = 1
  /\ result' = <<>>
  /\ origin_date_list' = <<>>
  /\ ret' = None
  /\ UNCHANGED <<env, lists>>

\* a result cell calls format_text_month(alt_text_month_list, alt=True)
CallFormatAltTextMonth ==
  /\ pc \in {"idle", "done", "raised"}
  /\ fn' = "format_text_month"
  /\ args' = <<TRUE>>
  /\ pc' = "loop"
  /\ i' = 1
  /\ result' = <<>>
  /\ origin_date_list' = <<>>
  /\ ret' = None
  /\ UNCHANGED <<env, lists>>

\* one iteration of the loop of format_asian_dates
FormatAsianDatesIter ==
  /\ pc = "loop" /\ fn = "format_asian_dates"
  /\ i <= Len(asian_date_list)
  /\ LET item == asian_date_list[i]
         a == get_date_attrs(item, today)
         formatted_date == prep_iso8601(a.year, a.month, a.day)
     IN  IF IsRaise(a.exc) \/ IsRaise(formatted_date)
         THEN /\ pc' = "raised"
              /\ ret' = IF IsRaise(a.exc) THEN a.exc ELSE formatted_date
              /\ UNCHANGED <<i, result, origin_date_list>>
         ELSE /\ result' = Append(result, formatted_date.s)
              /\ origin_date_list' =
                   Append(origin_date_list, prep_origin_date(item))
              /\ i' = i + 1
              /\ UNCHANGED <<pc, ret>>
  /\ UNCHANGED <<env, lists, fn, args>>

\* one iteration of the loop of format_iso_dates
FormatIsoDatesIter ==
  /\ pc = "loop" /\ fn = "format_iso_dates"
  /\ i <= Len(iso_date_list)
  /\ result' = Append(result, format_iso_item(iso_date_list[i]))
  /\ i' = i + 1
  /\ UNCHANGED <<env, lists, fn, pc, args, ret, origin_date_list>>

\* one iteration of the loop of format_given_day
FormatGivenDayIter ==
  /\ pc = "loop" /\ fn = "format_given_day"
  /\ i <= Len(given_day_list)
  /\ LET item == given_day_list[i]
         day == StripSuffix(item.day)
         formatted_date == prep_iso8601(None, None, day)
     IN  IF IsRaise(formatted_date)
         THEN /\ pc' = "raised"
              /\ ret' = formatted_date
              /\ UNCHANGED <<i, result, origin_date_list>>
         ELSE /\ result' = Append(result, formatted_date.s)
              /\ origin_date_list' =
                   Append(origin_date_list, prep_origin_date(item))
              /\ i' = i + 1
              /\ UNCHANGED <<pc, ret>>
  /\ UNCHANGED <<env, lists, fn, args>>

\* the list the running function iterates over
CurrentList ==
  CASE fn = "format_asian_dates" -> asian_date_list
    [] fn = "format_iso_dates" -> iso_date_list
    [] fn = "format_given_day" -> given_day_list
    [] fn = "format_text_month" ->
         IF args[1] THEN alt_text_month_list ELSE text_month_list
    [] OTHER -> <<>>

\* the assignments of one iteration of the loop of format_text_month
FormatTextMonthAssign(s) ==
  IF IsRaise(s.exc)
  THEN /\ pc' = "raised"
       /\ ret' = s.exc
       /\ UNCHANGED <<i, result, origin_date_list>>
  ELSE /\ result' = s.result
       /\ origin_date_list' = s.origin_date_list
       /\ i' = i + 1
       /\ UNCHANGED <<pc, ret>>

\* one iteration of the loop of format_text_month
FormatTextMonthIter ==
  /\ pc = "loop" /\ fn = "format_text_month"
  /\ i <= Len(CurrentList)
  /\ FormatTextMonthAssign(
       format_text_month_step(result, origin_date_list, CurrentList[i],
                              args[1]))
  /\ UNCHANGED <<env, lists, fn, args>>

\* the loop is exhausted: return result (and origin_date_list)
Return ==
  /\ pc = "loop"
  /\ i > Len(CurrentList)
  /\ pc' = "done"
  /\ UNCHANGED <<env, lists, fn, i, args, ret, result, origin_date_list>>

Next ==
  \/ DefinePatterns
  \/ FindAll
  \/ CallFormatAsianDates
  \/ CallFormatIsoDates
  \/ CallFormatGivenDay
  \/ CallFormatTextMonth
  \/ CallFormatAltTextMonth
  \/ FormatAsianDatesIter
  \/ FormatIsoDatesIter
  \/ FormatGivenDayIter
  \/ FormatTextMonthIter
  \/ Return

Spec == Init /\ [][Next]_vars

(* ------------- convert_calendar_system called on its own --------------- *)
EraTokens == minguo_set \cup {HEISEI, TONGNIAN, SHOWA, <<NIAN>>}

NoPage ==
  /\ page_text = <<>>
  /\ asian_date_list = <<>>
  /\ iso_date_list = <<>>
  /\ given_day_list = <<>>
  /\ text_month_list = <<>>
  /\ alt_text_month_list = <<>>
  /\ registry = Compiled
  /\ callers = <<>>
  /\ i = 0
  /\ result = <<>>
  /\ origin_date_list = <<>>

InitConvert ==
  /\ today \in TodayYears
  /\ NoPage
  /\ fn = "convert_calendar_system"
  /\ pc = "call"
  /\ args \in {<<PyInt(y), PyStr(e)>> :
                 y \in (0 - MaxNegYear)..MaxEraYear, e \in EraTokens}
  /\ ret = None

ConvertCall ==
  /\ pc = "call" /\ fn = "convert_calendar_system"
  /\ ret' = convert_calendar_system(args[1], args[2], today)
  /\ pc' = "done"
  /\ UNCHANGED <<env, lists, fn, i, args, result, origin_date_list>>

NextConvert == ConvertCall

SpecConvert == InitConvert /\ [][NextConvert]_vars

(* -------------------- prep_iso8601 called on its own ------------------- *)
MaxMonth == 12
MaxDay == 31

PrepYears == {None, PyStr(<<"2", "0", "1", "6">>), PyInt(2016), PyInt(1912)}
PrepMonths ==
  {None} \cup {PyInt(m) : m \in 1..MaxMonth}
         \cup {PyStr(NatToStr(m)) : m \in 1..MaxMonth}
         \cup {PyStr(<<"0">> \o NatToStr(m)) : m \in 1..9}
PrepDays ==
  {None} \cup {PyStr(NatToStr(d)) : d \in 1..MaxDay}
         \cup {PyStr(<<"0">> \o NatToStr(d)) : d \in 1..9}

InitPrep ==
  /\ today \in TodayYears
  /\ NoPage
  /\ fn = "prep_iso8601"
  /\ pc = "call"
  /\ args \in PrepYears \X PrepMonths \X PrepDays
  /\ ret = None

PrepCall ==
  /\ pc = "call" /\ fn = "prep_iso8601"
  /\ ret' = prep_iso8601(args[1], args[2], args[3])
  /\ pc' = "done"
  /\ UNCHANGED <<env, lists, fn, i, args, result, origin_date_list>>

NextPrep == PrepCall

SpecPrep == InitPrep /\ [][NextPrep]_vars

(* ------------------------------ properties ----------------------------- *)
\* the two-digit decimal rendering of n < 100
TwoDigits(n) == <<DigitChar(n \div 10), DigitChar(n % 10)>>

RECURSIVE LeadingDigits(_)
\* the run of digits a token starts with
LeadingDigits(x) ==
  IF Len(x) > 0 /\ x[1] \in Digit THEN <<x[1]>> \o LeadingDigits(Tail(x))
  ELSE <<>>

StartsWith(x, prefix) ==
  Len(prefix) <= Len(x) /\ SubSeq(x, 1, Len(prefix)) = prefix

\* the number an argument of prep_iso8601 stands for
NumberOf(v) == IF v.t = "int" THEN v.i ELSE DigitsToNat(v.s)

\* the year segment of an assembled date
YearSeg(year) == IF year = None THEN <<"-", "-">> ELSE str(year) \o <<"-">>

PrepDone == pc = "done" /\ fn = "prep_iso8601"
ConvertDone == pc = "done" /\ fn = "convert_calendar_system"

\* C1: every date matched by iso_dates is emitted by format_iso_dates as
\* YYYY-MM-DD, whichever of the two separators the text has
C1_IsoNormalized ==
  fn = "format_iso_dates" =>
    \A k \in 1..Len(result) :
      result[k] = iso_date_list[k].year.s \o <<"-">>
                    \o iso_date_list[k].month.s \o <<"-">>
                    \o iso_date_list[k].day.s

\* a match with a fixed-offset era marker and a written year of at least 1
FixedEraMatch(m) ==
  /\ m.calendar.t = "str"
  /\ m.calendar.s \in {MINGUO_T, MINGUO_S, ZHONGHUA_T, ZHONGHUA_S, HEISEI}
  /\ m.year.t = "str"
  /\ DigitsToNat(LeadingDigits(m.year.s)) >= 1

GregorianOf(m) ==
  DigitsToNat(LeadingDigits(m.year.s))
    + (IF m.calendar.s = HEISEI THEN 1988 ELSE 1911)

\* C2: a match with a Minguo or Heisei marker and era year Y >= 1 is
\* emitted by format_asian_dates with the Gregorian year Y + 1911 or
\* Y + 1988, and processing it does not stop the function
C2_EraYearConverted ==
  fn = "format_asian_dates" =>
    /\ \A k \in 1..Len(result) :
         FixedEraMatch(asian_date_list[k]) =>
           StartsWith(result[k],
                      NatToStr(GregorianOf(asian_date_list[k])) \o <<"-">>)
    /\ pc = "raised" => ~FixedEraMatch(asian_date_list[i])

\* C3: a match whose era token is the same-year marker is emitted by
\* format_asian_dates with the present Gregorian year
C3_SameYearIsPresentYear ==
  fn = "format_asian_dates" =>
    \A k \in 1..Len(result) :
      asian_date_list[k].calendar = PyStr(TONGNIAN) =>
        StartsWith(result[k], NatToStr(today) \o <<"-">>)

\* C4: for an integer Y >= 1 convert_calendar_system returns 1911 + Y for
\* the four Minguo spellings and 1988 + Y for Heisei
C4_FixedOffsets ==
  (ConvertDone /\ args[1].i >= 1) =>
    /\ args[2].s \in {MINGUO_T, MINGUO_S, ZHONGHUA_T, ZHONGHUA_S}
         => ret = PyInt(1911 + args[1].i)
    /\ args[2].s = HEISEI => ret = PyInt(1988 + args[1].i)

C4_Witness ==
  /\ ConvertDone
  /\ args = <<PyInt(1), PyStr(ZHONGHUA_S)>>
  /\ ret = PyInt(1912)

\* C5: convert_calendar_system returns None, and raises nothing, for an
\* integer year below 1 with any era token and for an era token that is in
\* no lookup table with any integer year
C5_NoneWhenOutOfRange ==
  ConvertDone =>
    /\ args[1].i < 1 => ret = None
    /\ args[2].s \notin {MINGUO_T, MINGUO_S, ZHONGHUA_T, ZHONGHUA_S, HEISEI,
                         TONGNIAN} => ret = None

C5_Witness ==
  /\ ConvertDone
  /\ args = <<PyInt(0), PyStr(HEISEI)>>
  /\ ret = None

\* C6 as stated: for the same-year marker convert_calendar_system returns
\* the present year for every value of the year argument
C6_AnyYear ==
  (ConvertDone /\ args[2].s = TONGNIAN) => ret = PyInt(today)

\* C6 amended: for the same-year marker convert_calendar_system returns the
\* present year for every year argument of at least 1, whatever its value,
\* and None for a year argument below 1
C6_SameYearFromOne ==
  (ConvertDone /\ args[2].s = TONGNIAN) =>
    ret = IF args[1].i >= 1 THEN PyInt(today) ELSE None

C6_Witness ==
  /\ ConvertDone
  /\ args = <<PyInt(MaxEraYear), PyStr(TONGNIAN)>>
  /\ ret = PyInt(today)

\* the part of an assembled date after its year segment
AfterYear(x, year) == SubSeq(x, Len(YearSeg(year)) + 1, Len(x))

\* C7: a month that is present is rendered by prep_iso8601 as exactly two
\* digits, for the integers 1-12 and the strings "1"-"12" and "01"-"09"
C7_MonthTwoDigits ==
  (PrepDone /\ args[2] # None) =>
    /\ ret.t = "str"
    /\ LET rest == AfterYear(ret.s, args[1])
       IN  /\ StartsWith(rest, TwoDigits(NumberOf(args[2])))
           /\ Len(rest) = 2 \/ rest[3] = "-"

\* C8 as stated: with a day and no month prep_iso8601 emits the year
\* segment immediately followed by the day digits
C8_DayRightAfterYear ==
  (PrepDone /\ args[2] = None /\ args[3] # None) =>
    ret = PyStr(YearSeg(args[1]) \o TwoDigits(NumberOf(args[3])))

\* C8 amended: with a day and no month prep_iso8601 emits the year
\* segment, then the placeholder "--" for the month, then the two-digit day
C8_PlaceholderThenDay ==
  (PrepDone /\ args[2] = None /\ args[3] # None) =>
    ret = PyStr(YearSeg(args[1]) \o <<"-", "-">>
                  \o TwoDigits(NumberOf(args[3])))

C8_Witness ==
  /\ PrepDone
  /\ args = <<PyInt(2016), None, PyStr(<<"7">>)>>
  /\ ret = PyStr(<<"2", "0", "1", "6", "-", "-", "-", "0", "7">>)

\* C9: every match of given_day is emitted by format_given_day as "----"
\* and the two-digit day, paired with the marker and the day token with its
\* glyph
C9_GivenDay ==
  fn = "format_given_day" =>
    /\ pc # "raised"
    /\ Len(result) = Len(origin_date_list)
    /\ pc = "done" => Len(result) = Len(given_day_list)
    /\ \A k \in 1..Len(result) :
         LET token == given_day_list[k].day.s
             n == DigitsToNat(LeadingDigits(token))
         IN  /\ n \in 1..31
             /\ Len(token) = Len(LeadingDigits(token)) + 1
             /\ result[k] = <<"-", "-", "-", "-">> \o TwoDigits(n)
             /\ origin_date_list[k] = BENYUE \o token

C9_Witness ==
  /\ fn = "format_given_day" /\ pc = "done"
  /\ page_text = <<"deng">> \o BENYUE \o <<"0", "1", RI>>
  /\ result = << <<"-", "-", "-", "-", "0", "1">> >>
  /\ origin_date_list = << BENYUE \o <<"0", "1", RI>> >>

\* C10: for a 4-digit year, a month 1-12 and a day 1-31 prep_iso8601 yields
\* YYYY-MM-DD when all three are present, YYYY-MM when only the day is
\* absent and --MM-DD when only the year is absent
C10_Shapes ==
  (PrepDone /\ args[2] # None) =>
    LET MM == TwoDigits(NumberOf(args[2]))
        DD == TwoDigits(NumberOf(args[3]))
    IN  /\ (args[1] # None /\ args[3] # None) =>
             ret = PyStr(str(args[1]) \o <<"-">> \o MM \o <<"-">> \o DD)
        /\ (args[1] # None /\ args[3] = None) =>
             ret = PyStr(str(args[1]) \o <<"-">> \o MM)
        /\ (args[1] = None /\ args[3] # None) =>
             ret = PyStr(<<"-", "-">> \o MM \o <<"-">> \o DD)

(* ------- prep_iso8601, then iso_dates and format_iso_dates again ------- *)
RoundYears == {PyStr(<<"2", "0", "1", "6">>), PyInt(2016), PyInt(1912)}
RoundMonths == PrepMonths \ {None}
RoundDays == (PrepDays \ {None}) \cup {PyInt(d) : d \in 1..MaxDay}

InitRound ==
  /\ today \in TodayYears
  /\ NoPage
  /\ fn = "prep_iso8601"
  /\ pc = "call"
  /\ args \in RoundYears \X RoundMonths \X RoundDays
  /\ ret = None

\* the assembled string is scanned with iso_dates and the matches are
\* handed to format_iso_dates
ReExtract ==
  /\ pc = "done" /\ fn = "prep_iso8601"
  /\ ret.t = "str"
  /\ page_text' = ret.s
  /\ iso_date_list' = finditer(registry["cmp_iso_dates"], ret.s)
  /\ fn' = "format_iso_dates"
  /\ pc' = "loop"
  /\ i' = 1
  /\ result' = <<>>
  /\ UNCHANGED <<today, registry, callers, asian_date_list, given_day_list,
                 text_month_list, alt_text_month_list, args, ret,
                 origin_date_list>>

NextRound ==
  \/ PrepCall
  \/ ReExtract
  \/ FormatIsoDatesIter
  \/ Return

SpecRound == InitRound /\ [][NextRound]_vars

(* -------------- several callers of the format functions ---------------- *)
\* number of concurrent callers
NCallers == 2

Callers == 1..NCallers

\* the locals of a caller that has not called yet
IdleCaller ==
  [fn |-> "", alt |-> FALSE, pc |-> "idle", i |-> 0, result |-> <<>>,
   origin_date_list |-> <<>>, ret |-> None]

\* the locals of a caller at the first loop test of function f
EnteredCaller(f, alt) ==
  [fn |-> f, alt |-> alt, pc |-> "loop", i |-> 1, result |-> <<>>,
   origin_date_list |-> <<>>, ret |-> None]

\* the calls the result cells make: the function and its alt argument
Calls ==
  {<<"format_asian_dates", FALSE>>, <<"format_iso_dates", FALSE>>,
   <<"format_given_day", FALSE>>, <<"format_text_month", FALSE>>,
   <<"format_text_month", TRUE>>}

\* the shared list a call iterates over
SharedList(f, alt) ==
  CASE f = "format_asian_dates" -> asian_date_list
    [] f = "format_iso_dates" -> iso_date_list
    [] f = "format_given_day" -> given_day_list
    [] f = "format_text_month" ->
         IF alt THEN alt_text_month_list ELSE text_month_list
    [] OTHER -> <<>>

\* the locals after an iteration that formatted a date and its origin
Appended(st, formatted_date, origin) ==
  IF IsRaise(formatted_date)
  THEN [st EXCEPT !.pc = "raised", !.ret = formatted_date]
  ELSE [st EXCEPT !.result = Append(st.result, formatted_date.s),
                  !.origin_date_list = Append(st.origin_date_list, origin),
                  !.i = st.i + 1]

\* the loop body of format_asian_dates on the attributes a of the item
AsianIter(st, item, a) ==
  IF IsRaise(a.exc) THEN [st EXCEPT !.pc = "raised", !.ret = a.exc]
  ELSE Appended(st, prep_iso8601(a.year, a.month, a.day),
                prep_origin_date(item))

\* the locals after the loop body of format_text_month gave s
TextMonthIter(st, s) ==
  IF IsRaise(s.exc) THEN [st EXCEPT !.pc = "raised", !.ret = s.exc]
  ELSE [st EXCEPT !.result = s.result,
                  !.origin_date_list = s.origin_date_list, !.i = st.i + 1]

\* one iteration of the loop of the function the caller runs, on item
LocalIter(st, item, now) ==
  CASE st.fn = "format_asian_dates" ->
         AsianIter(st, item, get_date_attrs(item, now))
    [] st.fn = "format_iso_dates" ->
         [st EXCEPT !.result = Append(st.result, format_iso_item(item)),
                    !.i = st.i + 1]
    [] st.fn = "format_given_day" ->
         Appended(st, prep_iso8601(None, None, StripSuffix(item.day)),
                  prep_origin_date(item))
    [] st.fn = "format_text_month" ->
         TextMonthIter(st, format_text_month_step(st.result,
                                                  st.origin_date_list, item,
                                                  st.alt))

\* one step of a running caller: an iteration, or the return
LocalStep(st, list, now) ==
  IF st.i > Len(list) THEN [st EXCEPT !.pc = "done"]
  ELSE LocalIter(st, list[st.i], now)

\* a step in which result is one list that all callers append to
StepCaller_shared_result(cs, c, list, now) ==
  [d \in DOMAIN cs |->
     IF d = c THEN LocalStep(cs[c], list, now)
     ELSE [cs[d] EXCEPT !.result = LocalStep(cs[c], list, now).result]]

\* a step of caller c: result and origin_date_list are locals of the call
StepCaller(cs, c, list, now) ==
  [cs EXCEPT ![c] = LocalStep(cs[c], list, now)]

ConcTexts ==
  {ExampleA, ExampleH, StaticTestTextMonth, StaticTestAltTextMonth,
   TextOctopus, TextMixed, Join(<<ExampleB, ExampleD, ExampleE>>),
   Join(<<ExampleF, ExampleG, ExampleE>>),
   Join(<<ExampleD, <<"2", "0", "1", "3", "0", "1", "0", "1">> >>)}

\* the patterns are compiled and the finditer cell has run before any caller
InitConc ==
  /\ today \in TodayYears
  /\ page_text \in ConcTexts
  /\ registry = Compiled
  /\ asian_date_list = finditer(asian_dates, page_text)
  /\ iso_date_list = finditer(iso_dates, page_text)
  /\ text_month_list = finditer(text_month, page_text)
  /\ given_day_list = finditer(given_day, page_text)
  /\ alt_text_month_list = finditer(alt_text_month, page_text)
  /\ callers = [c \in Callers |-> IdleCaller]
  /\ fn = ""
  /\ pc = "idle"
  /\ i = 0
  /\ args = <<>>
  /\ ret = None
  /\ result = <<>>
  /\ origin_date_list = <<>>

single == <<fn, pc, i, args, ret, result, origin_date_list>>

\* caller c calls one of the format functions
ConcCall(c) ==
  /\ callers[c].pc = "idle"
  /\ \E call \in Calls :
       callers' = [callers EXCEPT ![c] = EnteredCaller(call[1], call[2])]
  /\ UNCHANGED <<today, page_text, registry, lists, single>>

\* caller c runs one iteration of its loop
ConcIter(c) ==
  /\ callers[c].pc = "loop"
  /\ callers[c].i <= Len(SharedList(callers[c].fn, callers[c].alt))
  /\ callers' = StepCaller(callers, c,
                           SharedList(callers[c].fn, callers[c].alt), today)
  /\ UNCHANGED <<today, page_text, registry, lists, single>>

\* the loop of caller c is exhausted: it returns
ConcReturn(c) ==
  /\ callers[c].pc = "loop"
  /\ callers[c].i > Len(SharedList(callers[c].fn, callers[c].alt))
  /\ callers' = StepCaller(callers, c,
                           SharedList(callers[c].fn, callers[c].alt), today)
  /\ UNCHANGED <<today, page_text, registry, lists, single>>

NextConc == \E c \in Callers : ConcCall(c) \/ ConcIter(c) \/ ConcReturn(c)

SpecConc == InitConc /\ [][NextConc]_vars

(* --------------------- properties of the Latin grammars ---------------- *)
TextMonthDone == pc = "done" /\ fn = "format_text_month"

\* the string that stands for the month, day and year written in a case
LatinExpected(c) ==
  (IF c.year = <<>> THEN <<"-", "-">> ELSE c.year \o <<"-">>)
    \o TwoDigits(c.month)
    \o (IF c.day = <<>> THEN <<>>
        ELSE <<"-">> \o TwoDigits(DigitsToNat(c.day)))

\* the text is the case c and format_text_month has returned for its order
LatinCaseDone(c) == TextMonthDone /\ page_text = c.text /\ args = <<c.alt>>

IsMonthName(s) ==
  \E k \in 1..12 :
    \/ EqualCI(s, MonthNames[k].abbr)
    \/ EqualCI(s, MonthNames[k].abbr \o MonthNames[k].rest)

\* C12: format_text_month emits a candidate only if the month token that
\* the broad pattern captured is a month name or its abbreviation
C12_OnlyGenuineMonths ==
  fn = "format_text_month" =>
    \A k \in 1..Len(origin_date_list) :
      IsMonthName(origin_date_list[k].month.s)

\* the Asian expressions whose written month or day number is out of range
OutOfRangeExprs ==
  {e \o y \o m \o d : e \in EraParts, y \in YearParts,
                      m \in {<<"1", "3", YUE>>}, d \in DayParts}
    \cup {e \o y \o m \o d : e \in EraParts, y \in YearParts,
                             m \in MonthParts, d \in {<<"3", "2", RI>>}}

\* the number a glyph-suffixed group stands for
GroupNumber(g) == DigitsToNat(StripSuffix(g).s)

\* C13: every emitted month is in 1..12 and every emitted day in 1..31, and
\* an expression whose written month or day number is out of range
\* produces no result at all
C13_InRange ==
  fn = "format_asian_dates" =>
    /\ \A k \in 1..Len(result) :
         /\ asian_date_list[k].month.t = "str"
              => GroupNumber(asian_date_list[k].month) \in 1..MaxMonth
         /\ asian_date_list[k].day.t = "str"
              => GroupNumber(asian_date_list[k].day) \in 1..MaxDay
    /\ page_text \in OutOfRangeExprs => result = <<>>

\* C14: the format functions return normally, none stops with an exception
C14_NoRaise == pc # "raised"

\* the matches the running function has gone through
Processed == SubSeq(CurrentList, 1, i - 1)

\* C18: the two output lists stay aligned; for format_asian_dates and
\* format_given_day entry k comes from match k, for format_text_month the
\* entries are an order-preserving subsequence of the matches gone through
C18_ListsAligned ==
  /\ fn \in {"format_asian_dates", "format_given_day", "format_text_month"}
       => Len(result) = Len(origin_date_list)
  /\ fn \in {"format_asian_dates", "format_given_day"} =>
       /\ Len(result) = i - 1
       /\ \A k \in 1..Len(result) :
            origin_date_list[k] = prep_origin_date(CurrentList[k])
  /\ fn = "format_given_day" =>
       \A k \in 1..Len(result) :
         result[k] = <<"-", "-", "-", "-">>
                       \o TwoDigits(GroupNumber(given_day_list[k].day))
  /\ fn = "format_text_month" =>
       /\ \A k \in 1..Len(origin_date_list) :
            \E j \in 1..Len(Processed) : Processed[j] = origin_date_list[k]
       /\ \A k \in 1..(Len(origin_date_list) - 1) :
            origin_date_list[k].end <= origin_date_list[k + 1].start
       /\ \A k \in 1..Len(result) :
            <<result[k]>> =
              format_text_month_step(<<>>, <<>>, origin_date_list[k],
                                     args[1]).result

\* a text with three candidates has been formatted: the second was rejected
C18_Witness ==
  /\ TextMonthDone
  /\ page_text = TextMixed
  /\ Len(text_month_list) = 3
  /\ Len(result) = 2
  /\ origin_date_list = <<text_month_list[1], text_month_list[3]>>

\* C19: the character stripped from the year group of an Asian match is
\* never a digit, and the year handed on is the whole run of digits written
C19_YearGlyphStripped ==
  fn = "format_asian_dates" =>
    \A k \in 1..Len(asian_date_list) :
      LET m == asian_date_list[k]
      IN  m.year.t = "str" =>
            /\ m.year.s[Len(m.year.s)] \notin Digit
            /\ StripSuffix(m.year) = PyStr(LeadingDigits(m.year.s))

\* C20: the day and the year of every emitted Latin candidate are the day
\* and year groups the broad pattern captured
C20_SameDayAndYear ==
  fn = "format_text_month" =>
    \A k \in 1..Len(result) :
      \E m \in 1..MaxMonth :
        result[k] = prep_iso8601(origin_date_list[k].year, PyInt(m),
                                 origin_date_list[k].day).s

\* a step of the pattern cell while names are already bound
Redefinition ==
  pc = "start" /\ fn' = "define_patterns" /\ DOMAIN registry # {}

RECURSIVE RunAlone(_, _, _)
\* the locals with which a call returns or stops when it runs alone
RunAlone(st, list, now) ==
  IF st.pc # "loop" THEN st ELSE RunAlone(LocalStep(st, list, now), list, now)

\* C15: whatever the interleaving, a caller ends with the result, origins
\* and exception of the same call run alone, so callers of the same
\* function end alike; the compiled patterns are never written
C15_SameResults ==
  /\ registry = Compiled
  /\ \A c \in DOMAIN callers :
       callers[c].pc \in {"done", "raised"} =>
         callers[c] = RunAlone(EnteredCaller(callers[c].fn, callers[c].alt),
                               SharedList(callers[c].fn, callers[c].alt),
                               today)
  /\ \A c, d \in DOMAIN callers :
       (/\ callers[c].pc \in {"done", "raised"}
        /\ callers[d].pc \in {"done", "raised"}
        /\ callers[c].fn = callers[d].fn
        /\ callers[c].alt = callers[d].alt) => callers[c] = callers[d]

\* two callers have returned from format_text_month on the static test text
C15_Witness ==
  /\ DOMAIN callers = Callers
  /\ \A c \in Callers :
       /\ callers[c].pc = "done"
       /\ callers[c].fn = "format_text_month"
       /\ Len(callers[c].result) >= 2

\* the year, month and day a date string is made of
RoundDone == fn = "format_iso_dates" /\ pc = "done"

\* C16: a full date assembled by prep_iso8601 and extracted again with
\* iso_dates and format_iso_dates gives the same year, month and day and
\* the same string
C16_RoundTrip ==
  /\ (fn = "prep_iso8601" /\ pc = "done") => ret.t = "str"
  /\ RoundDone =>
       /\ Len(iso_date_list) = 1
       /\ result = <<page_text>>
       /\ DigitsToNat(iso_date_list[1].year.s) = NumberOf(args[1])
       /\ DigitsToNat(iso_date_list[1].month.s) = NumberOf(args[2])
       /\ DigitsToNat(iso_date_list[1].day.s) = NumberOf(args[3])

====
